---- MODULE Spec2Model ----
(***************************************************************************)
(* Model of the SparkFun STP3593LF OCXO driver (sfDevSTP3593LF).           *)
(*                                                                         *)
(* Number representation                                                   *)
(*  - A uint32_t is a pair <<hi, lo>> of 16-bit halves, so that the full   *)
(*    32-bit width is kept (TLC integers stop at 2^31 - 1).                *)
(*  - A bias is an integer number of BIAS UNITS of 8e-10 ms (0.8 ps): with *)
(*    that unit  (0.0 - bias) / 1000.0 / 8e-13  is exactly -bias LSBs.     *)
(*  - _maxFrequencyChangePPB is an integer number of PPB; 1 PPB is         *)
(*    1.0e-9 / 8e-13 = 1250 LSBs.                                          *)
(*  - The gains Pk, Ik are integer numerators over GainDen; the doubles P, *)
(*    dI and I are integer numerators over GainDen as well (exact rational *)
(*    arithmetic, floating-point rounding is not modelled).  GainDen is a  *)
(*    multiple of 2 and of 3, so that halves and thirds are both gains.    *)
(***************************************************************************)
EXTENDS Integers, Sequences, FiniteSets, TLC

VARIABLES
    instances,              \* the driver objects that have been constructed
    frequencyControl,       \* _frequencyControl of each driver object
    maxFrequencyChangePPB,  \* _maxFrequencyChangePPB of each driver object
    I,                      \* static double I of setFrequencyByBiasMillis
    initialized,            \* static bool initialized of setFrequencyByBiasMillis
    synced,                 \* history, per object: some register read or write has succeeded
    steered,                \* history: the objects that have called setFrequencyByBiasMillis
    seed,                   \* history: _frequencyControl of the caller at the first steering call
    sumDI,                  \* history: sum of the dI of all steering calls
    nSteer,                 \* history: number of setFrequencyByBiasMillis calls made
    call,                   \* history: the last completed call
    codec,                  \* the encode/decode round trip of one control word
    emulator                \* the state of the emulator sketch (the device's side of the bus)

vars == <<instances, frequencyControl, maxFrequencyChangePPB, I, initialized,
          synced, steered, seed, sumDI, nSteer, call, codec, emulator>>

\* everything but the round trip
driver == <<instances, frequencyControl, maxFrequencyChangePPB, I, initialized,
            synced, steered, seed, sumDI, nSteer, call>>

----------------------------------------------------------------------------
(* Bounds of the model *)

\* Number of setFrequencyByBiasMillis calls explored (I is unbounded otherwise)
MaxSteer == 2

----------------------------------------------------------------------------
(* Program constants *)

kSfeSTP3593LFRegReadFrequencyControl == 65   \* 0x41
kSfeSTP3593LFRegWriteDAC == 160              \* 0xA0
kSfeSTP3593LFRegSaveFrequency == 194         \* 0xC2
kSfeSTP3593LFFreqControlMaxValue == 1000000
\* 1.0e-9 / kSfeSTP3593LFFreqControlResolution (8e-13): LSBs per PPB
LsbPerPPB == 1250
\* constructor default of _maxFrequencyChangePPB
DefaultMaxFrequencyChangePPB == 400
\* denominator of the rationals that stand for the doubles Pk, Ik, P, dI, I
GainDen == 6

----------------------------------------------------------------------------
(* uint32_t as a pair of 16-bit halves *)

Half == 65536

U32FromInt(x) == <<x \div Half, x % Half>>

\* value of a uint32_t below 2^31 as an integer
U32ToInt(w) == w[1] * Half + w[2]

U32Gt(a, b) == a[1] > b[1] \/ (a[1] = b[1] /\ a[2] > b[2])

MaxValue == U32FromInt(kSfeSTP3593LFFreqControlMaxValue)

----------------------------------------------------------------------------
(* Input sets: the values the callers, the bus and the device may supply *)

\* what an unassigned _frequencyControl may hold (it has no initializer)
UninitChoices == {U32FromInt(500000), U32FromInt(1500000)}

\* arguments of setFrequencyControlWord; <<65535, 65535>> is 0xFFFFFFFF
FreqChoices == {U32FromInt(500000), U32FromInt(1000000), U32FromInt(1500000),
                <<65535, 65535>>}

\* 4-byte register contents the device may return, MSB first:
\* 500000, 1000000, 1000001
DeviceWords == {<<0, 7, 161, 32>>, <<0, 15, 66, 64>>, <<0, 15, 66, 65>>}

\* argument of setMaxFrequencyChangePPB (the constructor's 400 is the other limit)
PPBChoices == {3}

\* bias arguments in bias units (250000 units = 200.0e-6 ms = +200 ns)
BiasChoices == {0, 250000, -250001}

\* <<Pk, Ik>> arguments, numerators over GainDen: <<0, 0>>, <<1.0, 0>>, <<1.5, 0.5>>
GainChoices == {<<0, 0>>, <<GainDen, 0>>, <<(3 * GainDen) \div 2, GainDen \div 2>>}

\* the arguments above and, for the arithmetic of a single call, the limits
\* -3, 0, 1 and 400 PPB and the gains <<2/3, 0>> and <<-1.0, 0>>
FinePPBChoices == PPBChoices \cup {-3, 0, 1, 400}
FineGainChoices == GainChoices \cup {<<(2 * GainDen) \div 3, 0>>, <<0 - GainDen, 0>>}

----------------------------------------------------------------------------
(* Bus transactions, as the driver sees them *)

NoBytes == <<>>

Tx(kind, reg, ok, n, bytes) ==
    [kind |-> kind, reg |-> reg, ok |-> ok, n |-> n, bytes |-> bytes]

\* outcomes of _theBus->readRegisterRegion(reg, theBytes, 4, readBytes):
\* a bus error, a short read of 3 bytes, or 4 bytes of arbitrary register contents
ReadReplies ==
    {[ok |-> FALSE, n |-> 0, bytes |-> <<0, 0, 0, 0>>]}
    \cup {[ok |-> TRUE, n |-> 3, bytes |-> b] : b \in {<<0, 7, 161, 32>>}}
    \cup {[ok |-> TRUE, n |-> 4, bytes |-> b] : b \in DeviceWords}

----------------------------------------------------------------------------
(* Register codec *)

\* mutation: the bytes taken LSB first
ExtractControlWord_LSBFirst(theBytes) ==
    <<theBytes[4] * 256 + theBytes[3], theBytes[2] * 256 + theBytes[1]>>

\* frequencyControl = theBytes[0] << 24 | theBytes[1] << 16 | theBytes[2] << 8 | theBytes[3]
ExtractControlWord(theBytes) ==
    <<theBytes[1] * 256 + theBytes[2], theBytes[3] * 256 + theBytes[4]>>

\* mutation: the bytes put in the buffer LSB first
ControlWordBytes_LSBFirst(freq) ==
    <<freq[2] % 256, (freq[2] \div 256) % 256, freq[1] % 256, (freq[1] \div 256) % 256>>

\* theBytes[0..3] = (freq >> 24) & 0xFF, (freq >> 16) & 0xFF, (freq >> 8) & 0xFF, freq & 0xFF
ControlWordBytes(freq) ==
    <<(freq[1] \div 256) % 256, freq[1] % 256, (freq[2] \div 256) % 256, freq[2] % 256>>

\* mutation: no limit
LimitControlWord_NoLimit(freq) == freq

\* if (freq > kSfeSTP3593LFFreqControlMaxValue) freq = kSfeSTP3593LFFreqControlMaxValue;
LimitControlWord(freq) == IF U32Gt(freq, MaxValue) THEN MaxValue ELSE freq

----------------------------------------------------------------------------
(* readFrequencyControlWord and setFrequencyControlWord as functions of the
   object's state and of the bus outcome: ok is the return value, fc the new
   _frequencyControl, bus the transactions issued *)

\* mutation: the bounds check left out
readFrequencyControlWord_NoBoundsCheck(fc, reply) ==
    LET tx == Tx("read", kSfeSTP3593LFRegReadFrequencyControl, reply.ok, reply.n, reply.bytes)
    IN  IF ~reply.ok \/ reply.n # 4 THEN [ok |-> FALSE, fc |-> fc, bus |-> <<tx>>]
        ELSE [ok |-> TRUE, fc |-> ExtractControlWord(reply.bytes), bus |-> <<tx>>]

\* mutation: the readBytes check left out
readFrequencyControlWord_NoLengthCheck(fc, reply) ==
    LET tx == Tx("read", kSfeSTP3593LFRegReadFrequencyControl, reply.ok, reply.n, reply.bytes)
        frequencyControlWord == ExtractControlWord(reply.bytes)
    IN  IF ~reply.ok \/ U32Gt(frequencyControlWord, MaxValue)
        THEN [ok |-> FALSE, fc |-> fc, bus |-> <<tx>>]
        ELSE [ok |-> TRUE, fc |-> frequencyControlWord, bus |-> <<tx>>]

readFrequencyControlWord(fc, reply) ==
    LET tx == Tx("read", kSfeSTP3593LFRegReadFrequencyControl, reply.ok, reply.n, reply.bytes)
        frequencyControlWord == ExtractControlWord(reply.bytes)
    IN  IF ~reply.ok THEN [ok |-> FALSE, fc |-> fc, bus |-> <<tx>>]
        ELSE IF reply.n # 4 THEN [ok |-> FALSE, fc |-> fc, bus |-> <<tx>>]
        ELSE IF U32Gt(frequencyControlWord, MaxValue) THEN [ok |-> FALSE, fc |-> fc, bus |-> <<tx>>]
        ELSE [ok |-> TRUE, fc |-> frequencyControlWord, bus |-> <<tx>>]

\* mutation: the driver's copy updated before the write is known to have succeeded
setFrequencyControlWord_CommitFirst(fc, freq, writeOk) ==
    LET limited == LimitControlWord(freq)
        tx == Tx("write", kSfeSTP3593LFRegWriteDAC, writeOk, 4, ControlWordBytes(limited))
    IN  [ok |-> writeOk, fc |-> limited, bus |-> <<tx>>]

\* mutation: true returned whatever the bus write returned
setFrequencyControlWord_AlwaysTrue(fc, freq, writeOk) ==
    LET limited == LimitControlWord(freq)
        tx == Tx("write", kSfeSTP3593LFRegWriteDAC, writeOk, 4, ControlWordBytes(limited))
    IN  [ok |-> TRUE, fc |-> IF writeOk THEN limited ELSE fc, bus |-> <<tx>>]

setFrequencyControlWord(fc, freq, writeOk) ==
    LET limited == LimitControlWord(freq)
        theBytes == ControlWordBytes(limited)
        tx == Tx("write", kSfeSTP3593LFRegWriteDAC, writeOk, 4, theBytes)
    IN  IF ~writeOk THEN [ok |-> FALSE, fc |-> fc, bus |-> <<tx>>]
        ELSE [ok |-> TRUE, fc |-> limited, bus |-> <<tx>>]

----------------------------------------------------------------------------
(* The arithmetic of setFrequencyByBiasMillis *)

\* mutation: I seeded from _frequencyControl on every call
IntegratorStart_EveryCall(isInitialized, Icur, fc) == U32ToInt(fc) * GainDen

\* if (!initialized) I = (double)_frequencyControl; the value I has before dI is added
IntegratorStart(isInitialized, Icur, fc) ==
    IF ~isInitialized THEN U32ToInt(fc) * GainDen ELSE Icur

\* mutation: the error taken as bias - 0.0
RequiredChangeInLSBs_NoNegation(bias) == bias

\* error = 0.0 - bias; error /= 1000.0; error / kSfeSTP3593LFFreqControlResolution
\* (in LSBs, for a bias in bias units)
RequiredChangeInLSBs(bias) == 0 - bias

\* mutation: a resolution of 1e-12 in place of 8e-13
MaxChangeInLSBs_WrongResolution(ppb) == ppb * 1000

\* _maxFrequencyChangePPB * 1.0e-9 / kSfeSTP3593LFFreqControlResolution
MaxChangeInLSBs(ppb) == ppb * LsbPerPPB

\* mutation: the negative side not limited
LimitChange_OneSided(requiredChangeInLSBs, maxChangeInLSBs) ==
    IF requiredChangeInLSBs > maxChangeInLSBs THEN maxChangeInLSBs
    ELSE requiredChangeInLSBs

\* mutation: a maximum of zero taken to mean "no limit"
LimitChange_ZeroUnlimited(requiredChangeInLSBs, maxChangeInLSBs) ==
    IF maxChangeInLSBs = 0 THEN requiredChangeInLSBs
    ELSE IF requiredChangeInLSBs >= 0
    THEN IF requiredChangeInLSBs > maxChangeInLSBs THEN maxChangeInLSBs
         ELSE requiredChangeInLSBs
    ELSE IF requiredChangeInLSBs < 0 - maxChangeInLSBs THEN 0 - maxChangeInLSBs
         ELSE requiredChangeInLSBs

\* Limit requiredChangeInLSBs to +/-maxChangeInLSBs
LimitChange(requiredChangeInLSBs, maxChangeInLSBs) ==
    IF requiredChangeInLSBs >= 0
    THEN IF requiredChangeInLSBs > maxChangeInLSBs THEN maxChangeInLSBs
         ELSE requiredChangeInLSBs
    ELSE IF requiredChangeInLSBs < 0 - maxChangeInLSBs THEN 0 - maxChangeInLSBs
         ELSE requiredChangeInLSBs

\* mutation: the fraction dropped, as by a conversion without round()
Round_Truncate(num) ==
    IF num >= 0 THEN num \div GainDen ELSE 0 - ((0 - num) \div GainDen)

\* round(x) for x = num / GainDen: halfway cases away from zero
Round(num) ==
    IF num >= 0 THEN (2 * num + GainDen) \div (2 * GainDen)
    ELSE 0 - ((2 * (0 - num) + GainDen) \div (2 * GainDen))

\* (uint32_t)x for an integral double x with |x| < 2^31.  A negative x is not
\* representable: the conversion is undefined, and builds produce either 0
\* (saturating conversion) or x + 2^32 (conversion through a wider integer).
CastToU32(x) ==
    IF x >= 0 THEN {U32FromInt(x)}
    ELSE {U32FromInt(0),
          <<32768 + ((x + 2147483647 + 1) \div Half), (x + 2147483647 + 1) % Half>>}

----------------------------------------------------------------------------
(* The record of a call: op the operation, dev the object, ok the result,
   pre the object's _frequencyControl before the call, valid whether a read or
   write had succeeded before the call, bus the transactions issued, and the
   arguments and intermediate values of the operation.  Of a steering call:
   change is requiredChangeInLSBs after the limit, Ipre the value of I before
   dI is added (of any other call: the value of I before the call), sum the value of P + I, target the value of round(P + I),
   freq the uint32_t passed to setFrequencyControlWord; again tells whether
   the call before it was a steering call of the same object with the same
   arguments ("retry" after one that failed, "repeat" after one that
   succeeded, "no" otherwise), and prevSum is the sum of that call *)

NoCall ==
    [op |-> "none", dev |-> "A", ok |-> FALSE, pre |-> U32FromInt(0),
     commBus |-> TRUE, freq |-> U32FromInt(0), bias |-> 0, Pk |-> 0, Ik |-> 0,
     ppb |-> 0, change |-> 0, Ipre |-> 0, first |-> FALSE, fresh |-> FALSE,
     P |-> 0, dI |-> 0, sum |-> 0, target |-> 0, again |-> "no", prevSum |-> 0,
     valid |-> FALSE, bus |-> <<>>]

Called(op, d, ok, bus) ==
    [NoCall EXCEPT !.op = op, !.dev = d, !.ok = ok, !.pre = frequencyControl[d],
                   !.valid = synced[d], !.bus = bus, !.Ipre = I]

\* the round trip has not been started
CodecOff ==
    [stage |-> "off", v |-> U32FromInt(0), writer |-> U32FromInt(0), bytes |-> NoBytes,
     reader |-> U32FromInt(0), ok |-> FALSE]

\* #define NUM_REG_BYTES (4)
NUM_REG_BYTES == 4

\* The emulator sketch after setup(): registerBytes holds 500000 MSB first,
\* registerAddress is 0, no handler is running and loop() is outside the body
\* of its if.  rx is what Wire.available()/Wire.read() still hold for the
\* running receiveHandler and count its local; freqControl is the bytes that
\* loop() has put together so far.  History: reply is what the last
\* requestHandler sent, and replyFor the data bytes of the last write message
\* before it; message is the last message received and pre the register
\* bytes before it; lastData is the 4 data bytes of the last message that
\* carried 4 or more, whole the words written so far as a whole, printed
\* the bytes of the last word printed.
EmulatorStart ==
    [registerBytes |-> <<0, 7, 161, 32>>, registerAddress |-> 0,
     handling |-> FALSE, rx |-> <<>>, count |-> -1,
     inLoop |-> FALSE, freqControl |-> <<>>, printed |-> <<>>,
     reply |-> <<>>, replyFor |-> <<>>, message |-> <<>>, pre |-> <<0, 7, 161, 32>>,
     lastData |-> <<0, 7, 161, 32>>, whole |-> {<<0, 7, 161, 32>>}]

\* What a bus master sends to the emulator: nothing but the device address
\* (a ping), the read pointer 0x41 or the save command 0xC2 alone, a write of
\* 500000 or 1000000 to 0xA0 or to 0x41, and a write to 0xA0 with a sixth byte
EmulatorData == {<<0, 7, 161, 32>>, <<0, 15, 66, 64>>}
EmulatorMessages ==
    {<<>>, <<kSfeSTP3593LFRegReadFrequencyControl>>, <<kSfeSTP3593LFRegSaveFrequency>>}
    \cup {<<a>> \o w : a \in {kSfeSTP3593LFRegWriteDAC, kSfeSTP3593LFRegReadFrequencyControl},
                       w \in EmulatorData}
    \cup {<<kSfeSTP3593LFRegWriteDAC>> \o w \o <<9>> : w \in EmulatorData}

----------------------------------------------------------------------------
(* Initial state: after the constructors have run *)

InitWith(objects) ==
    /\ instances = objects
    /\ frequencyControl \in [objects -> UninitChoices]
    /\ maxFrequencyChangePPB = [d \in objects |-> DefaultMaxFrequencyChangePPB]
    /\ I = 0
    /\ initialized = FALSE
    /\ synced = [d \in objects |-> FALSE]
    /\ steered = {}
    /\ seed = U32FromInt(0)
    /\ sumDI = 0
    /\ nSteer = 0
    /\ call = NoCall

Init == InitWith({"A"}) /\ codec = CodecOff /\ emulator = EmulatorStart

----------------------------------------------------------------------------
(* Operations *)

\* mutation: the second read checked but its value dropped
begin_KeepFirst(d) ==
    /\ \E commBus \in BOOLEAN :
        IF ~commBus
        THEN /\ call' = [Called("begin", d, FALSE, <<>>) EXCEPT !.commBus = FALSE]
             /\ UNCHANGED <<frequencyControl, synced>>
        ELSE \E pingOk \in BOOLEAN :
            LET ping == Tx("ping", 0, pingOk, 0, NoBytes)
            IN  IF ~pingOk
                THEN /\ call' = Called("begin", d, FALSE, <<ping>>)
                     /\ UNCHANGED <<frequencyControl, synced>>
                ELSE \E r1 \in ReadReplies :
                    LET first == readFrequencyControlWord(frequencyControl[d], r1)
                    IN  IF first.ok
                        THEN \E r2 \in ReadReplies :
                            LET second == readFrequencyControlWord(first.fc, r2)
                            IN  /\ call' = Called("begin", d, second.ok,
                                                  <<ping>> \o first.bus \o second.bus)
                                /\ frequencyControl' = [frequencyControl EXCEPT ![d] = first.fc]
                                /\ synced' = [synced EXCEPT ![d] = TRUE]
                        ELSE /\ call' = Called("begin", d, FALSE, <<ping>> \o first.bus)
                             /\ UNCHANGED <<frequencyControl, synced>>
    /\ UNCHANGED <<instances, maxFrequencyChangePPB, I, initialized, steered,
                   seed, sumDI, nSteer, codec, emulator>>

\* mutation: the register read once only
begin_SingleRead(d) ==
    /\ \E commBus \in BOOLEAN :
        IF ~commBus
        THEN /\ call' = [Called("begin", d, FALSE, <<>>) EXCEPT !.commBus = FALSE]
             /\ UNCHANGED <<frequencyControl, synced>>
        ELSE \E pingOk \in BOOLEAN :
            LET ping == Tx("ping", 0, pingOk, 0, NoBytes)
            IN  IF ~pingOk
                THEN /\ call' = Called("begin", d, FALSE, <<ping>>)
                     /\ UNCHANGED <<frequencyControl, synced>>
                ELSE \E r1 \in ReadReplies :
                    LET first == readFrequencyControlWord(frequencyControl[d], r1)
                    IN  /\ call' = Called("begin", d, first.ok, <<ping>> \o first.bus)
                        /\ frequencyControl' = [frequencyControl EXCEPT ![d] = first.fc]
                        /\ synced' = [synced EXCEPT ![d] = @ \/ first.ok]
    /\ UNCHANGED <<instances, maxFrequencyChangePPB, I, initialized, steered,
                   seed, sumDI, nSteer, codec, emulator>>

\* sfDevSTP3593LF::begin(commBus)
begin(d) ==
    /\ \E commBus \in BOOLEAN :
        IF ~commBus
        THEN /\ call' = [Called("begin", d, FALSE, <<>>) EXCEPT !.commBus = FALSE]
             /\ UNCHANGED <<frequencyControl, synced>>
        ELSE \E pingOk \in BOOLEAN :
            LET ping == Tx("ping", 0, pingOk, 0, NoBytes)
            IN  IF ~pingOk
                THEN /\ call' = Called("begin", d, FALSE, <<ping>>)
                     /\ UNCHANGED <<frequencyControl, synced>>
                ELSE \E r1 \in ReadReplies :
                    LET first == readFrequencyControlWord(frequencyControl[d], r1)
                    IN  IF first.ok
                        THEN \E r2 \in ReadReplies :
                            LET second == readFrequencyControlWord(first.fc, r2)
                            IN  /\ call' = Called("begin", d, second.ok,
                                                  <<ping>> \o first.bus \o second.bus)
                                /\ frequencyControl' = [frequencyControl EXCEPT ![d] = second.fc]
                                /\ synced' = [synced EXCEPT ![d] = TRUE]
                        ELSE /\ call' = Called("begin", d, FALSE, <<ping>> \o first.bus)
                             /\ UNCHANGED <<frequencyControl, synced>>
    /\ UNCHANGED <<instances, maxFrequencyChangePPB, I, initialized, steered,
                   seed, sumDI, nSteer, codec, emulator>>

\* mutation: the integrator set to the value read
ReadFrequencyControlWord_Resync(d) ==
    \E r \in ReadReplies :
        LET res == readFrequencyControlWord(frequencyControl[d], r)
        IN  /\ call' = Called("read", d, res.ok, res.bus)
            /\ frequencyControl' = [frequencyControl EXCEPT ![d] = res.fc]
            /\ synced' = [synced EXCEPT ![d] = @ \/ res.ok]
            /\ I' = IF res.ok THEN U32ToInt(res.fc) * GainDen ELSE I
            /\ UNCHANGED <<instances, maxFrequencyChangePPB, initialized, steered,
                           seed, sumDI, nSteer, codec, emulator>>

\* sfDevSTP3593LF::readFrequencyControlWord()
ReadFrequencyControlWord(d) ==
    \E r \in ReadReplies :
        LET res == readFrequencyControlWord(frequencyControl[d], r)
        IN  /\ call' = Called("read", d, res.ok, res.bus)
            /\ frequencyControl' = [frequencyControl EXCEPT ![d] = res.fc]
            /\ synced' = [synced EXCEPT ![d] = @ \/ res.ok]
            /\ UNCHANGED <<instances, maxFrequencyChangePPB, I, initialized, steered,
                           seed, sumDI, nSteer, codec, emulator>>

\* sfDevSTP3593LF::setFrequencyControlWord(freq)
SetFrequencyControlWord(d) ==
    \E freq \in FreqChoices, writeOk \in BOOLEAN :
        LET res == setFrequencyControlWord(frequencyControl[d], freq, writeOk)
        IN  /\ call' = [Called("set", d, res.ok, res.bus) EXCEPT !.freq = freq]
            /\ frequencyControl' = [frequencyControl EXCEPT ![d] = res.fc]
            /\ synced' = [synced EXCEPT ![d] = @ \/ res.ok]
            /\ UNCHANGED <<instances, maxFrequencyChangePPB, I, initialized, steered,
                           seed, sumDI, nSteer, codec, emulator>>

\* sfDevSTP3593LF::setMaxFrequencyChangePPB(ppb)
SetMaxFrequencyChangePPB(d) ==
    \E ppb \in PPBChoices :
        /\ maxFrequencyChangePPB' = [maxFrequencyChangePPB EXCEPT ![d] = ppb]
        /\ call' = [Called("setMax", d, TRUE, <<>>) EXCEPT !.ppb = ppb]
        /\ UNCHANGED <<instances, frequencyControl, I, initialized, synced, steered,
                       seed, sumDI, nSteer, codec, emulator>>

\* mutation: the integrator put back when the write fails
Steer_RollBack(d, bias, gains, writeOk) ==
    LET Pk == gains[1]
        Ik == gains[2]
        I0 == IntegratorStart(initialized, I, frequencyControl[d])
        requiredChangeInLSBs ==
            LimitChange(RequiredChangeInLSBs(bias), MaxChangeInLSBs(maxFrequencyChangePPB[d]))
        P == requiredChangeInLSBs * Pk
        dI == requiredChangeInLSBs * Ik
        I1 == I0 + dI
        again == IF call.op = "steer" /\ call.dev = d /\ call.bias = bias
                    /\ call.Pk = Pk /\ call.Ik = Ik
                 THEN (IF call.ok THEN "repeat" ELSE "retry")
                 ELSE "no"
    IN  \E freq \in CastToU32(Round(P + I1)) :
        LET res == setFrequencyControlWord(frequencyControl[d], freq, writeOk)
        IN  /\ I' = IF res.ok THEN I1 ELSE I0
            /\ initialized' = TRUE
            /\ seed' = IF nSteer = 0 THEN frequencyControl[d] ELSE seed
            /\ sumDI' = sumDI + dI
            /\ nSteer' = nSteer + 1
            /\ steered' = steered \cup {d}
            /\ call' = [Called("steer", d, res.ok, res.bus) EXCEPT
                           !.freq = freq, !.bias = bias, !.Pk = Pk, !.Ik = Ik,
                           !.ppb = maxFrequencyChangePPB[d],
                           !.change = requiredChangeInLSBs, !.Ipre = I0,
                           !.first = (nSteer = 0), !.fresh = (d \notin steered),
                           !.P = P, !.dI = dI, !.sum = P + I1,
                           !.target = Round(P + I1), !.again = again,
                           !.prevSum = IF again = "no" THEN 0 ELSE call.sum]
            /\ frequencyControl' = [frequencyControl EXCEPT ![d] = res.fc]
            /\ synced' = [synced EXCEPT ![d] = @ \/ res.ok]
            /\ UNCHANGED <<instances, maxFrequencyChangePPB, codec, emulator>>

\* the body of setFrequencyByBiasMillis(bias, Pk, Ik), for gains = <<Pk, Ik>> and a
\* bus write that succeeds (writeOk) or fails
Steer(d, bias, gains, writeOk) ==
    LET Pk == gains[1]
        Ik == gains[2]
        I0 == IntegratorStart(initialized, I, frequencyControl[d])
        requiredChangeInLSBs ==
            LimitChange(RequiredChangeInLSBs(bias), MaxChangeInLSBs(maxFrequencyChangePPB[d]))
        P == requiredChangeInLSBs * Pk
        dI == requiredChangeInLSBs * Ik
        I1 == I0 + dI
        again == IF call.op = "steer" /\ call.dev = d /\ call.bias = bias
                    /\ call.Pk = Pk /\ call.Ik = Ik
                 THEN (IF call.ok THEN "repeat" ELSE "retry")
                 ELSE "no"
    IN  \E freq \in CastToU32(Round(P + I1)) :
        LET res == setFrequencyControlWord(frequencyControl[d], freq, writeOk)
        IN  /\ I' = I1
            /\ initialized' = TRUE
            /\ seed' = IF nSteer = 0 THEN frequencyControl[d] ELSE seed
            /\ sumDI' = sumDI + dI
            /\ nSteer' = nSteer + 1
            /\ steered' = steered \cup {d}
            /\ call' = [Called("steer", d, res.ok, res.bus) EXCEPT
                           !.freq = freq, !.bias = bias, !.Pk = Pk, !.Ik = Ik,
                           !.ppb = maxFrequencyChangePPB[d],
                           !.change = requiredChangeInLSBs, !.Ipre = I0,
                           !.first = (nSteer = 0), !.fresh = (d \notin steered),
                           !.P = P, !.dI = dI, !.sum = P + I1,
                           !.target = Round(P + I1), !.again = again,
                           !.prevSum = IF again = "no" THEN 0 ELSE call.sum]
            /\ frequencyControl' = [frequencyControl EXCEPT ![d] = res.fc]
            /\ synced' = [synced EXCEPT ![d] = @ \/ res.ok]
            /\ UNCHANGED <<instances, maxFrequencyChangePPB, codec, emulator>>

\* sfDevSTP3593LF::setFrequencyByBiasMillis(bias, Pk, Ik)
SetFrequencyByBiasMillis(d) ==
    /\ nSteer < MaxSteer
    /\ \E bias \in BiasChoices, gains \in GainChoices, writeOk \in BOOLEAN :
        Steer(d, bias, gains, writeOk)

\* sfDevSTP3593LF::saveFrequencyControlValue().  cmdOk tells whether the save
\* command was written to the device.  writeByte reports that, as the other
\* calls on _theBus do, with an error code that the driver does not compare
\* with ksfTkErrOk here: "result &= code" leaves result true exactly when the
\* lowest bit of the code is set.  The codes are those of the bus library, so
\* for either outcome of the command result may be left true or false.
SaveFrequencyControlValue(d) ==
    /\ \E cmdOk \in BOOLEAN, result \in BOOLEAN :
        LET cmd == Tx("cmd", kSfeSTP3593LFRegSaveFrequency, cmdOk, 0, NoBytes)
        IN  IF result
            THEN \E r \in ReadReplies :
                LET res == readFrequencyControlWord(frequencyControl[d], r)
                IN  /\ call' = Called("save", d, res.ok, <<cmd>> \o res.bus)
                    /\ frequencyControl' = [frequencyControl EXCEPT ![d] = res.fc]
                    /\ synced' = [synced EXCEPT ![d] = @ \/ res.ok]
            ELSE /\ call' = Called("save", d, FALSE, <<cmd>>)
                 /\ UNCHANGED <<frequencyControl, synced>>
    /\ UNCHANGED <<instances, maxFrequencyChangePPB, I, initialized, steered,
                   seed, sumDI, nSteer, codec, emulator>>

\* SfeSTP3593LFArdI2C::begin(address): _theI2CBus.init(address), then
\* beginDevice(): a ping, setStop(false), and sfDevSTP3593LF::begin(&_theI2CBus)
\* with its own ping and its two register reads
ArdBegin(d) ==
    /\ \E initOk \in BOOLEAN :
        LET init == Tx("init", 0, initOk, 0, NoBytes)
        IN  IF ~initOk
            THEN /\ call' = Called("ardBegin", d, FALSE, <<init>>)
                 /\ UNCHANGED <<frequencyControl, synced>>
            ELSE \E deviceOk \in BOOLEAN :
                LET present == Tx("ping", 0, deviceOk, 0, NoBytes)
                IN  IF deviceOk
                    THEN /\ call' = Called("ardBegin", d, FALSE, <<init, present>>)
                         /\ UNCHANGED <<frequencyControl, synced>>
                    ELSE \E pingOk \in BOOLEAN :
                        LET ping == Tx("ping", 0, pingOk, 0, NoBytes)
                        IN  IF ~pingOk
                            THEN /\ call' = Called("ardBegin", d, FALSE, <<init, present, ping>>)
                                 /\ UNCHANGED <<frequencyControl, synced>>
                            ELSE \E r1 \in ReadReplies :
                                LET first == readFrequencyControlWord(frequencyControl[d], r1)
                                IN  IF first.ok
                                    THEN \E r2 \in ReadReplies :
                                        LET second == readFrequencyControlWord(first.fc, r2)
                                        IN  /\ call' = Called("ardBegin", d, second.ok,
                                                              <<init, present, ping>>
                                                              \o first.bus \o second.bus)
                                            /\ frequencyControl' =
                                                   [frequencyControl EXCEPT ![d] = second.fc]
                                            /\ synced' = [synced EXCEPT ![d] = TRUE]
                                    ELSE /\ call' = Called("ardBegin", d, FALSE,
                                                          <<init, present, ping>> \o first.bus)
                                         /\ UNCHANGED <<frequencyControl, synced>>
    /\ UNCHANGED <<instances, maxFrequencyChangePPB, I, initialized, steered,
                   seed, sumDI, nSteer, codec, emulator>>

\* setMaxFrequencyChangePPB(ppb) with the further limits
SetFineMaxFrequencyChangePPB(d) ==
    \E ppb \in FinePPBChoices :
        /\ maxFrequencyChangePPB' = [maxFrequencyChangePPB EXCEPT ![d] = ppb]
        /\ call' = [Called("setMax", d, TRUE, <<>>) EXCEPT !.ppb = ppb]
        /\ UNCHANGED <<instances, frequencyControl, I, initialized, synced, steered,
                       seed, sumDI, nSteer, codec, emulator>>

\* setFrequencyByBiasMillis(bias, Pk, Ik) with the further gains
SetFrequencyByBiasMillisFine(d) ==
    /\ nSteer < MaxSteer
    /\ \E bias \in BiasChoices, gains \in FineGainChoices, writeOk \in BOOLEAN :
        Steer(d, bias, gains, writeOk)

(* A call of each operation on any of the objects *)
CallBegin == \E d \in instances : begin(d)
CallRead == \E d \in instances : ReadFrequencyControlWord(d)
CallSet == \E d \in instances : SetFrequencyControlWord(d)
CallSetMax == \E d \in instances : SetMaxFrequencyChangePPB(d)
CallSteer == \E d \in instances : SetFrequencyByBiasMillis(d)
CallSave == \E d \in instances : SaveFrequencyControlValue(d)
CallArdBegin == \E d \in instances : ArdBegin(d)
CallSetFineMax == \E d \in instances : SetFineMaxFrequencyChangePPB(d)
CallSteerFine == \E d \in instances : SetFrequencyByBiasMillisFine(d)

Next ==
    \/ CallBegin
    \/ CallRead
    \/ CallSet
    \/ CallSetMax
    \/ CallSteer
    \/ CallSave

Spec == Init /\ [][Next]_vars

----------------------------------------------------------------------------
(* Two driver objects in one program *)

InitTwo == InitWith({"A", "B"}) /\ codec = CodecOff /\ emulator = EmulatorStart

\* the calls that set each object's cache and steer it
NextTwo ==
    \/ CallRead
    \/ CallSet
    \/ CallSteer

SpecTwo == InitTwo /\ [][NextTwo]_vars

----------------------------------------------------------------------------
(* The Arduino class: begin of SfeSTP3593LFArdI2C and the calls that set the
   cache it starts from *)

NextArd ==
    \/ CallArdBegin
    \/ CallRead
    \/ CallSet
    \/ CallSave

SpecArd == Init /\ [][NextArd]_vars

----------------------------------------------------------------------------
(* The arithmetic of a steering call over the further limits and gains *)

NextFine ==
    \/ CallSetFineMax
    \/ CallSteerFine

SpecFine == Init /\ [][NextFine]_vars

----------------------------------------------------------------------------
(* The register codec on its own: one control word v is written by one
   object, and the bytes it put on the bus are returned to the register read
   of an object whose _frequencyControl is still unassigned *)

\* 32-bit words around the byte boundaries, around 1000000 = <<15, 16960>>, and 0xFFFFFFFF
CodecInputs ==
    {<<hi, lo>> : hi \in {0, 1, 15, 16, 255, 256, 65535},
                  lo \in {0, 1, 255, 256, 16959, 16960, 16961, 65535}}

InitCodec ==
    /\ InitWith({"A"})
    /\ emulator = EmulatorStart
    /\ codec \in {[CodecOff EXCEPT !.stage = "start", !.v = v, !.writer = w, !.reader = r] :
                     v \in CodecInputs, w \in UninitChoices, r \in UninitChoices}

\* setFrequencyControlWord(v) on the writing object
CodecTransmit ==
    /\ codec.stage = "start"
    /\ \E writeOk \in BOOLEAN :
        LET res == setFrequencyControlWord(codec.writer, codec.v, writeOk)
        IN  codec' = [codec EXCEPT !.stage = "sent", !.writer = res.fc,
                                   !.bytes = res.bus[1].bytes]
    /\ UNCHANGED <<driver, emulator>>

\* readFrequencyControlWord() on the reading object, the device returning the bytes sent
CodecFeedBack ==
    /\ codec.stage = "sent"
    /\ LET res == readFrequencyControlWord(codec.reader,
                                           [ok |-> TRUE, n |-> 4, bytes |-> codec.bytes])
       IN  codec' = [codec EXCEPT !.stage = "read", !.reader = res.fc, !.ok = res.ok]
    /\ UNCHANGED <<driver, emulator>>

NextCodec == CodecTransmit \/ CodecFeedBack

SpecCodec == InitCodec /\ [][NextCodec]_vars

----------------------------------------------------------------------------
(* The emulator sketch: receiveHandler and requestHandler are the callbacks
   of the Wire library, called one at a time as a bus transaction completes;
   loop() runs in the foreground, and a callback may run between any two of
   its reads of the volatile registerBytes. *)

\* mutation: data bytes are stored only under the register address 0xA0
receiveByte_AddressSelects(e, b) ==
    IF e.count = -1
    THEN [e EXCEPT !.registerAddress = b, !.count = 0]
    ELSE IF e.count < NUM_REG_BYTES /\ e.registerAddress = kSfeSTP3593LFRegWriteDAC
         THEN [e EXCEPT !.registerBytes[e.count + 1] = b, !.count = @ + 1]
         ELSE [e EXCEPT !.count = @ + 1]

\* one pass of the while loop of receiveHandler: the switch on count, count++
receiveByte(e, b) ==
    IF e.count = -1
    THEN [e EXCEPT !.registerAddress = b, !.count = 0]
    ELSE IF e.count < NUM_REG_BYTES
         THEN [e EXCEPT !.registerBytes[e.count + 1] = b, !.count = @ + 1]
         ELSE [e EXCEPT !.count = @ + 1]

\* receiveHandler(len) is called with a message: int count = -1
receiveHandlerEnter ==
    /\ ~emulator.handling
    /\ \E msg \in EmulatorMessages :
        LET written == Len(msg) >= 1 + NUM_REG_BYTES
            data == IF written THEN SubSeq(msg, 2, 1 + NUM_REG_BYTES) ELSE emulator.lastData
        IN  emulator' = [emulator EXCEPT !.handling = TRUE, !.rx = msg, !.count = -1,
                                         !.message = msg, !.pre = emulator.registerBytes,
                                         !.lastData = data,
                                         !.whole = @ \cup {data}]
    /\ UNCHANGED <<driver, codec>>

\* while (Wire.available()) { b = Wire.read(); switch (count) ...; count++; }
receiveHandlerByte ==
    /\ emulator.handling /\ emulator.rx # <<>>
    /\ emulator' = [receiveByte(emulator, Head(emulator.rx)) EXCEPT !.rx = Tail(emulator.rx)]
    /\ UNCHANGED <<driver, codec>>

\* Wire.available() is 0: receiveHandler returns
receiveHandlerReturn ==
    /\ emulator.handling /\ emulator.rx = <<>>
    /\ emulator' = [emulator EXCEPT !.handling = FALSE]
    /\ UNCHANGED <<driver, codec>>

receiveHandler == receiveHandlerEnter \/ receiveHandlerByte \/ receiveHandlerReturn

\* requestHandler(): Wire.write(registerBytes[i]) for i = 0..3, whatever
\* registerAddress is
requestHandler ==
    /\ ~emulator.handling
    /\ emulator' = [emulator EXCEPT !.reply = emulator.registerBytes,
                                     !.replyFor = emulator.lastData]
    /\ UNCHANGED <<driver, codec>>

\* loop(): millis() > lastPrint + 1000, the body of the if is entered
loopEnter ==
    /\ ~emulator.inLoop
    /\ emulator' = [emulator EXCEPT !.inLoop = TRUE, !.freqControl = <<>>]
    /\ UNCHANGED <<driver, codec>>

\* freqControl = registerBytes[0] << 24, then |= registerBytes[i] << (24 - 8 i):
\* one read of a volatile byte per statement
loopReadByte ==
    /\ emulator.inLoop /\ Len(emulator.freqControl) < NUM_REG_BYTES
    /\ emulator' = [emulator EXCEPT
           !.freqControl = Append(@, emulator.registerBytes[Len(emulator.freqControl) + 1])]
    /\ UNCHANGED <<driver, codec>>

\* Serial.println(freqControl)
loopPrint ==
    /\ emulator.inLoop /\ Len(emulator.freqControl) = NUM_REG_BYTES
    /\ emulator' = [emulator EXCEPT !.inLoop = FALSE, !.printed = emulator.freqControl,
                                     !.freqControl = <<>>]
    /\ UNCHANGED <<driver, codec>>

loop == loopEnter \/ loopReadByte \/ loopPrint

NextEmulator == receiveHandler \/ requestHandler \/ loop

SpecEmulator == Init /\ [][NextEmulator]_vars

----------------------------------------------------------------------------
(* Helpers of the properties, written independently of the operators above *)

\* the 4 bytes, MSB first, are a number above 1000000 = 0x000F4240
BytesAboveMax(b) ==
    \/ b[1] > 0
    \/ b[1] = 0 /\ b[2] > 15
    \/ b[1] = 0 /\ b[2] = 15 /\ b[3] > 66
    \/ b[1] = 0 /\ b[2] = 15 /\ b[3] = 66 /\ b[4] > 64

\* the 32-bit number whose big-endian bytes are b
BigEndian(b) == <<b[1] * 256 + b[2], b[3] * 256 + b[4]>>

\* min(v, 1000000) for a 32-bit v
MinWithMax(v) == IF v[1] > 15 \/ (v[1] = 15 /\ v[2] > 16960) THEN <<15, 16960>> ELSE v

\* a register read that the driver must accept: no bus error, 4 bytes, in range
GoodRead(tx) == tx.kind = "read" /\ tx.ok /\ tx.n = 4 /\ ~BytesAboveMax(tx.bytes)

\* the object's cached control word now
Cache == frequencyControl[call.dev]

\* the number of reads of register 0x41 among the transactions of the call
NumReads == Cardinality({i \in DOMAIN call.bus : call.bus[i].kind = "read" /\ call.bus[i].reg = 65})

\* a control word below 2^31 as a number
Number(w) == w[1] * 65536 + w[2]

Distance(a, b) == IF a >= b THEN a - b ELSE b - a

Abs(x) == IF x >= 0 THEN x ELSE 0 - x

\* the integer n is num / GainDen rounded to the nearest integer, halves away from zero
IsRounded(n, num) ==
    IF num >= 0
    THEN 2 * num - GainDen < 2 * n * GainDen /\ 2 * n * GainDen <= 2 * num + GainDen
    ELSE 2 * num - GainDen <= 2 * n * GainDen /\ 2 * n * GainDen < 2 * num + GainDen

\* num / GainDen rounded to the nearest integer, for num >= 0
Nearest(num) == (num + GainDen \div 2) \div GainDen

\* the control word whose bytes the steering call put on the bus, as a number
Written == Number(BigEndian(call.bus[1].bytes))

\* a transaction that did what was asked of it
Succeeded(tx) == IF tx.kind = "read" THEN GoodRead(tx) ELSE tx.ok

----------------------------------------------------------------------------
(* Properties *)

\* C1: once a register read or write of an object has succeeded, its cached
\* control word is at most 1000000 (and, being unsigned, at least 0), whatever
\* calls are made and whatever the bus and the device answer.
C1_CacheInRange ==
    \A d \in instances :
        synced[d] => (frequencyControl[d][1] < 15
                      \/ (frequencyControl[d][1] = 15 /\ frequencyControl[d][2] <= 16960))

\* C1 witness: an object whose unassigned cache held 1500000 has accepted a
\* register read of exactly 1000000.
C1_Witness ==
    /\ call.op = "read" /\ call.ok /\ synced[call.dev]
    /\ call.pre = <<22, 58208>>
    /\ Cache = <<15, 16960>>

\* C3: a register read that fails (bus error, a byte count other than 4, or a
\* value above 1000000) returns false and leaves the cached control word as
\* it was before the call.
C3_FailedReadKeepsCache ==
    (call.op = "read"
     /\ (~call.bus[1].ok \/ call.bus[1].n # 4 \/ BytesAboveMax(call.bus[1].bytes)))
    => (~call.ok /\ Cache = call.pre)

\* C3 witness: a 3-byte read of an otherwise valid value (500000) was refused
\* and the cache still holds a different value.
C3_Witness ==
    /\ call.op = "read" /\ call.bus[1].ok /\ call.bus[1].n = 3
    /\ ~call.ok
    /\ Cache = call.pre
    /\ Cache # BigEndian(call.bus[1].bytes)

\* C4: setFrequencyControlWord writes 4 bytes to register 0xA0 and nothing
\* else; when the write fails it returns false and the cache is unchanged, when
\* it succeeds it returns true and the cache is the value whose bytes were sent,
\* which is min(freq, 1000000).
C4_CacheFollowsWrite ==
    call.op = "set" =>
        /\ Len(call.bus) = 1
        /\ call.bus[1].kind = "write" /\ call.bus[1].reg = 160 /\ call.bus[1].n = 4
        /\ ~call.bus[1].ok => (~call.ok /\ Cache = call.pre)
        /\ call.bus[1].ok => (call.ok /\ Cache = BigEndian(call.bus[1].bytes)
                                       /\ Cache = MinWithMax(call.freq))

\* C4 witness: a failed write of 1000000 left a cache of 500000 untouched.
C4_Witness ==
    /\ call.op = "set" /\ ~call.bus[1].ok /\ ~call.ok
    /\ call.freq = <<15, 16960>>
    /\ Cache = <<7, 41248>>

\* C5: the bytes that setFrequencyControlWord(v) puts on the bus, returned to
\* readFrequencyControlWord, are accepted and leave min(v, 1000000) in the cache.
C5_RoundTrip ==
    codec.stage = "read" => (codec.ok /\ codec.reader = MinWithMax(codec.v))

\* C5 witness: v = 0x00FF4240, which differs from 1000000 in one byte only, came back as
\* 1000000 and was accepted.
C5_Witness ==
    /\ codec.stage = "read" /\ codec.ok
    /\ codec.v = <<255, 16960>>
    /\ codec.reader = <<15, 16960>>

\* C6: setFrequencyControlWord(v) with v > 1000000 sends the bytes 00 0F 42 40,
\* as setFrequencyControlWord(1000000) does, returns what the bus write
\* returned, and on success leaves 1000000 in the cache.
C6_WriteSaturates ==
    (call.op = "set" /\ (call.freq = <<15, 16960>> \/ MinWithMax(call.freq) # call.freq))
    => /\ call.bus[1].bytes = <<0, 15, 66, 64>>
       /\ call.ok = call.bus[1].ok
       /\ call.ok => Cache = <<15, 16960>>

\* C6 witness: setFrequencyControlWord(1500000) succeeded and the cache is 1000000.
C6_Witness ==
    /\ call.op = "set" /\ call.ok
    /\ call.freq = <<22, 58208>>
    /\ call.bus[1].bytes = <<0, 15, 66, 64>>
    /\ Cache = <<15, 16960>>

\* C2 (as claimed): a successful setFrequencyByBiasMillis call moves the cached
\* control word by at most maxChangeLSB = _maxFrequencyChangePPB * 1250 LSBs.
\* Stated here for the calls the claim is least demanding on: the cache was
\* valid before the call (a read or write had succeeded) and Pk <= 1.0.
C2_RateLimited ==
    (call.op = "steer" /\ call.ok /\ call.valid /\ call.Pk <= GainDen)
    => Distance(Number(Cache), Number(call.pre)) <= call.ppb * 1250

\* C7 (as claimed): begin pings first; on every call whose ping succeeds it
\* issues exactly two reads of register 0x41; it succeeds only if the ping and
\* both reads succeed; when the ping fails it issues no read.
C7_AlwaysTwoReads ==
    (call.op = "begin" /\ call.commBus)
    => /\ call.bus[1].kind = "ping"
       /\ call.bus[1].ok => NumReads = 2
       /\ ~call.bus[1].ok => NumReads = 0
       /\ call.ok <=> (call.bus[1].ok /\ NumReads = 2
                       /\ \A i \in 2..Len(call.bus) : GoodRead(call.bus[i]))

\* C7 (amended): begin, given a bus, pings first and issues nothing but reads
\* of register 0x41 after the ping; when the ping fails it issues no read and
\* fails; when the ping succeeds it issues one read, and a second one exactly
\* when the first succeeded; it succeeds exactly when the ping and both reads
\* succeed.
C7_SecondReadOnlyAfterFirst ==
    (call.op = "begin" /\ call.commBus)
    => /\ call.bus[1].kind = "ping"
       /\ \A i \in 2..Len(call.bus) : call.bus[i].kind = "read" /\ call.bus[i].reg = 65
       /\ ~call.bus[1].ok => (Len(call.bus) = 1 /\ ~call.ok)
       /\ call.bus[1].ok => /\ Len(call.bus) \in {2, 3}
                            /\ Len(call.bus) = 3 <=> GoodRead(call.bus[2])
                            /\ call.ok <=> (Len(call.bus) = 3 /\ GoodRead(call.bus[3]))

\* C7 witness: the ping succeeded, the first read failed, and begin returned
\* after that single read.
C7_Witness ==
    /\ call.op = "begin" /\ call.commBus /\ ~call.ok
    /\ call.bus[1].ok
    /\ Len(call.bus) = 2
    /\ ~GoodRead(call.bus[2])

\* C8 (as claimed): when begin fails the cache is what it was before the call,
\* and when it succeeds the cache is the value of the second read.
C8_OnlySecondReadCommitted ==
    call.op = "begin"
    => /\ ~call.ok => Cache = call.pre
       /\ call.ok => Cache = BigEndian(call.bus[3].bytes)

\* C8 (amended): when begin succeeds the cache is the value of the second
\* read; when the first read succeeds and the second fails the cache is the
\* value of the first read; when the ping or the first read fails (or no bus
\* is given) the cache is what it was before the call.
C8_FirstReadCommittedToo ==
    call.op = "begin"
    => /\ call.ok => Cache = BigEndian(call.bus[3].bytes)
       /\ (~call.ok /\ Len(call.bus) = 3) => Cache = BigEndian(call.bus[2].bytes)
       /\ (~call.ok /\ Len(call.bus) < 3) => Cache = call.pre

\* C8 witness: the first read succeeded, the second failed, begin reported
\* failure, and the cache holds the value of the first read, which is not the
\* value it held before the call.
C8_Witness ==
    /\ call.op = "begin" /\ ~call.ok
    /\ Len(call.bus) = 3
    /\ GoodRead(call.bus[2]) /\ ~GoodRead(call.bus[3])
    /\ Cache = BigEndian(call.bus[2].bytes)
    /\ Cache # call.pre

\* C9: I is seeded exactly once, by the first setFrequencyByBiasMillis call,
\* with the control word cached at that moment; after n steering calls it is
\* that seed plus the sum of the n values requiredChangeInLSBs * Ik.
C9_SeededOnce ==
    /\ initialized <=> nSteer > 0
    /\ initialized => I = Number(seed) * GainDen + sumDI

\* C9 witness: a second steering call was made when the cache no longer held
\* the seed, after a nonzero dI, and the seed was not zero.
C9_Witness ==
    /\ call.op = "steer" /\ ~call.first /\ nSteer = 2
    /\ call.pre # seed
    /\ Number(seed) = 500000
    /\ sumDI # 0

\* C10 (as claimed): the first steering call of each object starts its
\* integrator from that object's own cached control word, whatever the other
\* objects have done.  Stated for objects whose cache was valid before the call.
C10_OwnIntegrator ==
    (call.op = "steer" /\ call.fresh /\ call.valid)
    => call.Ipre = Number(call.pre) * GainDen

\* C11 (as claimed): with Pk = 0 and Ik = 0 a successful setFrequencyByBiasMillis
\* call leaves the cached control word as it was before the call, whatever
\* the bias and whatever calls were made before.  Stated for a cache that was
\* valid before the call.
C11_ZeroGainsFreeze ==
    (call.op = "steer" /\ call.ok /\ call.valid /\ call.Pk = 0 /\ call.Ik = 0)
    => Cache = call.pre

\* C11 (amended): with Pk = 0 and Ik = 0 a setFrequencyByBiasMillis call leaves
\* the integrator as it was and computes round(integrator), whatever the
\* bias; when that is not negative a successful call leaves the cache at that
\* value, limited to 1000000.  It is the value before the call on the first
\* steering call from a valid cache.
C11_ZeroGainsWriteIntegrator ==
    (call.op = "steer" /\ call.Pk = 0 /\ call.Ik = 0)
    => /\ I = call.Ipre
       /\ IsRounded(call.target, I)
       /\ (call.ok /\ call.target >= 0)
              => Number(Cache) = (IF call.target > 1000000 THEN 1000000 ELSE call.target)
       /\ (call.ok /\ call.first /\ call.valid) => Cache = call.pre

\* C11 witness: after setFrequencyControlWord had put 1000000 in the cache, a
\* successful call with Pk = 0 and Ik = 0 took the cache back to 500000, the
\* value of the integrator.
C11_Witness ==
    /\ call.op = "steer" /\ call.ok /\ call.valid /\ ~call.first
    /\ call.Pk = 0 /\ call.Ik = 0
    /\ call.pre = <<15, 16960>>
    /\ Cache = <<7, 41248>>

\* C12 (as claimed): for any bias, Pk and Ik the magnitude of P, the limited
\* change times Pk, is at most round(_maxFrequencyChangePPB * 1250 * Pk).
C12_RoundedBound ==
    call.op = "steer"
    => (call.ppb * 1250 * call.Pk >= 0
        /\ Abs(call.P) <= Nearest(call.ppb * 1250 * call.Pk) * GainDen)

\* C12 (amended): for any bias, Pk and Ik the magnitude of the limited change
\* is at most _maxFrequencyChangePPB * 1250 and the magnitude of P is at most
\* the magnitude of _maxFrequencyChangePPB * 1250 * Pk, not rounded.
C12_ProportionalBound ==
    call.op = "steer"
    => /\ Abs(call.change) <= Abs(call.ppb * 1250)
       /\ Abs(call.P) <= Abs(call.ppb * 1250 * call.Pk)
       /\ call.P = call.change * call.Pk

\* C12 witness: with a limit of 1 PPB and Pk = 2/3 the magnitude of P is
\* 833.33..., which is the bound and is more than round(833.33...) = 833.
C12_Witness ==
    /\ call.op = "steer" /\ call.ppb = 1
    /\ call.Pk > 0 /\ 3 * call.Pk = 2 * GainDen
    /\ Abs(call.P) = 1250 * call.Pk
    /\ Abs(call.P) > Nearest(1250 * call.Pk) * GainDen

\* C13: when the bus write of a steering call fails, the call returns false,
\* the cache is as before the call, and I keeps the value it had after dI was
\* added; a retry with the same arguments straight after a failed call
\* computes a value of P + I that is greater by dI than that of the failed call.
C13_FailedWriteKeepsIntegrator ==
    /\ (call.op = "steer" /\ ~call.bus[1].ok)
       => /\ ~call.ok
          /\ Cache = call.pre
          /\ I = call.Ipre + call.change * call.Ik
    /\ (call.op = "steer" /\ call.again = "retry")
       => call.sum = call.prevSum + call.change * call.Ik

\* C13 witness: a retry, with a nonzero dI, of a call whose write had failed;
\* the retry failed too and the cache is still what it was.
C13_Witness ==
    /\ call.op = "steer" /\ call.again = "retry" /\ ~call.ok
    /\ call.change * call.Ik # 0
    /\ call.sum # call.prevSum
    /\ I # call.Ipre
    /\ Cache = call.pre

\* C14 (as claimed): saveFrequencyControlValue first issues the save command,
\* register 0xC2 with no payload; when the command succeeds it reads register
\* 0x41 exactly once and, when that read is valid, returns true with the
\* cache at the value read; when the command fails it returns false, reads
\* nothing and leaves the cache as it was.
C14_SaveThenRead ==
    call.op = "save"
    => /\ call.bus[1].kind = "cmd" /\ call.bus[1].reg = 194 /\ call.bus[1].n = 0
       /\ call.bus[1].ok
             => /\ Len(call.bus) = 2 /\ NumReads = 1
                /\ GoodRead(call.bus[2])
                      => (call.ok /\ Cache = BigEndian(call.bus[2].bytes))
       /\ ~call.bus[1].ok => (~call.ok /\ Len(call.bus) = 1 /\ Cache = call.pre)

\* C15 (as claimed): under repeated steering calls with the same nonzero
\* bias, Ik > 0 and a limit above zero, every call moves the integrator
\* strictly in the direction of the error (down for a positive bias, up for a
\* negative one) until the integrator is held at a bound of [0, 1000000].
\* Stated for an integrator that was seeded from a control word in that range.
C15_MonotoneUntilClamped ==
    (call.op = "steer" /\ call.again # "no" /\ call.bias # 0 /\ call.Ik > 0
     /\ call.ppb > 0 /\ Number(seed) <= 1000000)
    => /\ call.bias > 0 => (I < call.Ipre \/ I = 0)
       /\ call.bias < 0 => (I > call.Ipre \/ I = 1000000 * GainDen)
       /\ 0 <= I /\ I <= 1000000 * GainDen

\* C15 (amended): every steering call with a nonzero bias, Ik > 0 and a limit
\* above zero moves the integrator strictly in the direction of the error, by
\* the limited change times Ik, and nothing holds the integrator at a bound
\* of [0, 1000000]: only the word that is written is limited.
C15_MonotoneNeverClamped ==
    (call.op = "steer" /\ call.bias # 0 /\ call.Ik > 0 /\ call.ppb > 0)
    => /\ call.bias > 0 => I < call.Ipre
       /\ call.bias < 0 => I > call.Ipre
       /\ I = call.Ipre + call.change * call.Ik

\* C15 witness: the second of two calls with the same negative bias and
\* Ik = 0.5, from a seed of 1000000: the integrator rose again, above 1000000.
C15_Witness ==
    /\ call.op = "steer" /\ call.again # "no" /\ call.bias < 0 /\ call.Ik > 0
    /\ Number(seed) = 1000000
    /\ call.Ipre > 1000000 * GainDen
    /\ I > call.Ipre

\* C16: on the first steering call, from a valid cache C, with Pk = 1.0,
\* Ik = 0 and a bias whose required change is larger in magnitude than
\* L = _maxFrequencyChangePPB * 1250, a successful call leaves the cache at
\* C - L for a positive bias and at C + L for a negative bias, when that
\* value is in [0, 1000000].
C16_FirstCallLimitedStep ==
    (call.op = "steer" /\ call.first /\ call.valid /\ call.ok
     /\ call.Pk = GainDen /\ call.Ik = 0 /\ Abs(call.bias) > call.ppb * 1250)
    => /\ (call.bias > 0 /\ Number(call.pre) - call.ppb * 1250 >= 0)
             => Number(Cache) = Number(call.pre) - call.ppb * 1250
       /\ (call.bias < 0 /\ Number(call.pre) + call.ppb * 1250 <= 1000000)
             => Number(Cache) = Number(call.pre) + call.ppb * 1250

\* C16 witness: 3 PPB, a bias of +200 ns, Pk = 1.0, Ik = 0, C = 500000: the
\* cache is 496250 = C - 3750.
C16_Witness ==
    /\ call.op = "steer" /\ call.first /\ call.valid /\ call.ok
    /\ call.ppb = 3 /\ call.bias = 250000 /\ call.Pk = GainDen /\ call.Ik = 0
    /\ call.pre = <<7, 41248>>
    /\ Cache = <<7, 37498>>

\* C17 (as claimed): SfeSTP3593LFArdI2C::begin returns true when the bus
\* initialised and the ping and the register reads succeeded, that is when
\* nothing it asked of the bus and the device failed, and false otherwise.
C17_TrueIffNothingFailed ==
    call.op = "ardBegin"
    => (call.ok <=> \A i \in DOMAIN call.bus : Succeeded(call.bus[i]))

\* C18: with _maxFrequencyChangePPB = 0 the limited change is zero whatever
\* the bias, Pk and Ik: P = 0, the call leaves the integrator as it was, and
\* the word computed is round(integrator), which is the word written when it
\* is in [0, 1000000].
C18_ZeroLimitNoCorrection ==
    (call.op = "steer" /\ call.ppb = 0)
    => /\ call.change = 0
       /\ call.P = 0
       /\ I = call.Ipre
       /\ IsRounded(call.target, I)
       /\ (0 <= call.target /\ call.target <= 1000000) => Written = call.target

\* C18 witness: a limit of 0, a bias of +200 ns, Pk = 1.5 and Ik = 0.5, on a
\* second steering call whose integrator an earlier call had moved off its
\* seed: the integrator is written as it is.
C18_Witness ==
    /\ call.op = "steer" /\ call.ppb = 0 /\ call.bias = 250000
    /\ call.Pk > GainDen /\ call.Ik > 0
    /\ nSteer = 2
    /\ I # Number(seed) * GainDen
    /\ Written = call.target

\* C19 (as claimed): the word of a steering call is limited at both ends of
\* the range: when round(P + I) is above 1000000 the word written, and stored
\* on success, is 1000000, and when round(P + I) is below 0 it is 0.  Stated
\* for a cache that was valid before the call.
C19_ClampedAtBothEnds ==
    (call.op = "steer" /\ call.valid)
    => /\ call.target > 1000000 => (Written = 1000000
                                     /\ (call.ok => Number(Cache) = 1000000))
       /\ call.target < 0 => (Written = 0 /\ (call.ok => Number(Cache) = 0))

\* C20: every steering call adds dI to the integrator, then issues one bus
\* transaction, a write of 4 bytes to register 0xA0, and no register read;
\* the word written is round(P + I) for the new I, limited to 1000000 (for a
\* round(P + I) that is not negative); the cache takes that word when the
\* write succeeds and keeps its value when it fails; the call returns what
\* the write returned.
C20_AdvanceWriteCommit ==
    call.op = "steer"
    => /\ I = call.Ipre + call.change * call.Ik
       /\ call.sum = call.change * call.Pk + I
       /\ IsRounded(call.target, call.sum)
       /\ Len(call.bus) = 1 /\ NumReads = 0
       /\ call.bus[1].kind = "write" /\ call.bus[1].reg = 160 /\ call.bus[1].n = 4
       /\ call.target >= 0
             => Written = (IF call.target > 1000000 THEN 1000000 ELSE call.target)
       /\ call.ok <=> call.bus[1].ok
       /\ call.bus[1].ok => Number(Cache) = Written
       /\ ~call.bus[1].ok => Cache = call.pre

\* C20 witness: the write of a steering call with a nonzero dI failed: the
\* integrator has moved, the word that was on the bus is not the cached one,
\* and the cache is what it was.
C20_Witness ==
    /\ call.op = "steer" /\ ~call.bus[1].ok /\ ~call.ok
    /\ I # call.Ipre
    /\ Written # Number(call.pre)
    /\ Cache = call.pre

\* the word the driver keeps of a computed round(P + I) that is not negative
Clamp(n) == IF n > 1000000 THEN 1000000 ELSE n

\* C21: a steering call with a bias of exactly 0 (and a limit that is not
\* negative) runs the whole computation: the limited change is 0, the
\* integrator keeps its value, one write of round(integrator), limited to
\* 1000000, goes to the bus (for a round(integrator) that is not negative),
\* the cache takes that word when the write succeeds, and so the cached
\* word changes in the call exactly when it differed from that word before.
C21_ZeroBiasWritesIntegrator ==
    (call.op = "steer" /\ call.bias = 0 /\ call.ppb >= 0)
    => /\ call.change = 0 /\ call.P = 0 /\ call.dI = 0
       /\ I = call.Ipre
       /\ IsRounded(call.target, I)
       /\ Len(call.bus) = 1 /\ call.bus[1].kind = "write"
       /\ call.target >= 0
             => /\ Written = Clamp(call.target)
                /\ call.ok => (/\ Number(Cache) = Clamp(call.target)
                               /\ (Cache # call.pre)
                                     <=> (Number(call.pre) # Clamp(call.target)))
       /\ ~call.ok => Cache = call.pre

\* C21 witness: a second steering call, with a bias of 0, succeeded and
\* changed a cached word that a register read had validated: the integrator
\* had been moved away from the cache before.
C21_Witness ==
    /\ call.op = "steer" /\ call.bias = 0 /\ call.ok /\ call.valid
    /\ nSteer = 2 /\ ~call.first
    /\ I = call.Ipre
    /\ Cache # call.pre
    /\ Number(Cache) = call.target

\* C22 (as claimed): whatever the value of _maxFrequencyChangePPB, negative
\* ones included, the limited change has the sign of the required change
\* (minus the bias) or is zero, and is no larger in magnitude.
C22_LimitNeverAmplifies ==
    call.op = "steer"
    => /\ call.bias > 0 => call.change <= 0
       /\ call.bias < 0 => call.change >= 0
       /\ call.bias = 0 => call.change = 0
       /\ Abs(call.change) <= Abs(call.bias)

\* C23: only a steering call changes the integrator: begin, a register read,
\* a set of the control word, a save and a set of the limit leave it as it
\* was, whether or not they change the cached word; a steering call adds dI
\* to it and never limits it, also when the word written is limited to
\* 1000000.
C23_OnlySteeringMovesIntegrator ==
    /\ call.op \in {"begin", "read", "set", "setMax", "save"} => I = call.Ipre
    /\ call.op = "steer"
          => /\ I = call.Ipre + call.dI
             /\ call.dI = call.change * call.Ik
             /\ (call.target > 1000000 /\ call.ok)
                   => (Number(Cache) = 1000000 /\ call.sum = call.P + I)

\* C23 witness: steering had taken the integrator above 1000000, and then a
\* successful set of the control word changed the cache to 500000: the
\* integrator is still above 1000000, more than 500000 words from the cache.
C23_Witness ==
    /\ call.op = "set" /\ call.ok /\ Cache # call.pre
    /\ initialized /\ nSteer > 0
    /\ I = call.Ipre
    /\ I > 1000000 * GainDen
    /\ Number(Cache) = 500000

\* C24: the emulator is one 4-byte register that ignores the register
\* address.  Between messages the register bytes are the 4 data bytes of the
\* last message that carried 4 or more (the bytes of 500000 before any), and
\* that is what a request returned; a message of 5 or more bytes leaves its
\* bytes 2 to 5 in the register whatever its first byte was, and a sixth
\* byte changes nothing; a message of the address byte alone, or of no byte,
\* leaves the register bytes as they were.
C24_OneRegisterIgnoringAddress ==
    /\ emulator.reply # <<>> => emulator.reply = emulator.replyFor
    /\ ~emulator.handling
          => /\ emulator.registerBytes = emulator.lastData
             /\ Len(emulator.message) >= 5
                   => emulator.registerBytes = SubSeq(emulator.message, 2, 5)
             /\ Len(emulator.message) <= 1
                   => emulator.registerBytes = emulator.pre
             /\ Len(emulator.message) >= 1
                   => emulator.registerAddress = emulator.message[1]

\* C24 witness: the register held 1000000; a message to register 0x41 with
\* the bytes of 500000 has been handled, and a request after it returned the
\* bytes of 500000.
C24_Witness ==
    /\ ~emulator.handling
    /\ emulator.message = <<65, 0, 7, 161, 32>>
    /\ emulator.pre = <<0, 15, 66, 64>>
    /\ emulator.reply = <<0, 7, 161, 32>>
    /\ emulator.replyFor = emulator.lastData

\* C25 (as claimed): the word that loop() prints is one that was written as
\* a whole: the initial 500000 or the 4 data bytes of one message received.
C25_PrintedWordWasWritten ==
    emulator.printed # <<>> => emulator.printed \in emulator.whole


====
